---- MODULE Spec2Model ----
(***************************************************************************)
(* Lazy model references in django: ModelSignal.connect                    *)
(* (django/db/models/signals.py) defers a subscription whose sender is a   *)
(* string until the named model is registered, and _check_lazy_references  *)
(* (django/core/checks/model_checks.py) reports the operations that are    *)
(* still pending.                                                          *)
(*                                                                         *)
(* Python values are records carrying their attributes; hasattr(o, a) is   *)
(* a \in DOMAIN o.  Text is a sequence of one-character strings, so that   *)
(* formatting, joining, lower-casing and the ordering of messages are      *)
(* computed character by character.                                        *)
(***************************************************************************)
EXTENDS Naturals, Sequences, FiniteSets, TLC

VARIABLES
    all_models,     \* registry name -> set of model keys registered in it
    pending,        \* registry name -> _pending_operations: model key -> list of callables
    receivers,      \* the subscriptions made by Signal.connect
    ret,            \* what the last operation was called with and what it returned
    stdout,         \* number of lines printed by the last operation
    signals_read,   \* whether the last operation read vars(models.signals)
    operations_read, \* whether the last operation read the lists of pending operations
    frame           \* the locals of the extract_operation call in progress

vars == <<all_models, pending, receivers, ret, stdout, signals_read, operations_read, frame>>

(***************************************************************************)
(* Text                                                                    *)
(***************************************************************************)

\* the printable ASCII characters in code point order: 32 (space) to 91,
ASCII_32_91 ==
    <<" ","!","\"","#","$","%","&","'","(",")","*","+",",","-",".","/","0","1","2","3","4","5",
    "6","7","8","9",":",";","<","=",">","?","@","A","B","C","D","E","F","G","H","I","J","K","L",
    "M","N","O","P","Q","R","S","T","U","V","W","X","Y","Z","[">>

\* 93 to 95,
ASCII_93_95 == <<"]","^","_">>

\* and 97 to 126; the backslash, 92, and the backquote, 96, appear in no text of the program
ASCII_97_126 ==
    <<"a","b","c","d","e","f","g","h","i","j","k","l","m","n","o","p","q","r",
    "s","t","u","v","w","x","y","z","{","|","}","~">>

\* the code point of the character, if it is the i-th one of a table starting at code point first
OrdIn(table, first, c) == first - 1 + (CHOOSE i \in DOMAIN table : table[i] = c)

Range(table) == {table[i] : i \in DOMAIN table}

\* ord(c): the code point of a character
Ord ==
    [c \in Range(ASCII_32_91) \cup Range(ASCII_93_95) \cup Range(ASCII_97_126) |->
        IF c \in Range(ASCII_32_91) THEN OrdIn(ASCII_32_91, 32, c)
        ELSE IF c \in Range(ASCII_93_95) THEN OrdIn(ASCII_93_95, 93, c)
        ELSE OrdIn(ASCII_97_126, 97, c)]

\* chr(n): the character with code point n
Chr(n) ==
    IF n <= 91 THEN ASCII_32_91[n - 31]
    ELSE IF n <= 95 THEN ASCII_93_95[n - 92]
    ELSE ASCII_97_126[n - 96]

\* field_error_msg is the text "The field %(field)s was declared with a lazy reference to '%(model)s', which is not installed."
field_error_msg ==
    <<"T","h","e"," ","f","i","e","l","d"," ","%","(","f","i","e","l","d",")","s"," ","w","a",
    "s"," ","d","e","c","l","a","r","e","d"," ","w","i","t","h"," ","a"," ","l","a","z","y"," ",
    "r","e","f","e","r","e","n","c","e"," ","t","o"," ","'","%","(","m","o","d","e","l",")","s",
    "'",","," ","w","h","i","c","h"," ","i","s"," ","n","o","t"," ","i","n","s","t","a","l","l",
    "e","d",".">>

\* signal_connect_error_msg is the text "%(receiver)s was connected to the '%(signal)s' signal with a lazy reference to the '%(model)s' sender, which has not been installed."
signal_connect_error_msg ==
    <<"%","(","r","e","c","e","i","v","e","r",")","s"," ","w","a","s"," ","c","o","n","n","e",
    "c","t","e","d"," ","t","o"," ","t","h","e"," ","'","%","(","s","i","g","n","a","l",")","s",
    "'"," ","s","i","g","n","a","l"," ","w","i","t","h"," ","a"," ","l","a","z","y"," ","r","e",
    "f","e","r","e","n","c","e"," ","t","o"," ","t","h","e"," ","'","%","(","m","o","d","e","l",
    ")","s","'"," ","s","e","n","d","e","r",","," ","w","h","i","c","h"," ","h","a","s"," ","n",
    "o","t"," ","b","e","e","n"," ","i","n","s","t","a","l","l","e","d",".">>

\* default_error_msg is the text "Unhandled lazy reference to '%(model)s': %(op)s."
default_error_msg ==
    <<"U","n","h","a","n","d","l","e","d"," ","l","a","z","y"," ","r","e","f","e","r","e","n",
    "c","e"," ","t","o"," ","'","%","(","m","o","d","e","l",")","s","'",":"," ","%","(","o","p",
    ")","s",".">>

\* function_description is the text "The '%s' function"
function_description ==
    <<"T","h","e"," ","'","%","s","'"," ","f","u","n","c","t","i","o","n">>

\* instance_description is the text "An instance of the '%s' class"
instance_description ==
    <<"A","n"," ","i","n","s","t","a","n","c","e"," ","o","f"," ","t","h","e"," ","'","%","s",
    "'"," ","c","l","a","s","s">>

\* s_unknown is the text 'unknown'
s_unknown ==
    <<"u","n","k","n","o","w","n">>

\* s_model is the text 'model'
s_model ==
    <<"m","o","d","e","l">>

\* s_field is the text 'field'
s_field ==
    <<"f","i","e","l","d">>

\* s_receiver is the text 'receiver'
s_receiver ==
    <<"r","e","c","e","i","v","e","r">>

\* s_signal is the text 'signal'
s_signal ==
    <<"s","i","g","n","a","l">>

\* s_op is the text 'op'
s_op ==
    <<"o","p">>

\* s_fields_E020 is the text 'fields.E020'
s_fields_E020 ==
    <<"f","i","e","l","d","s",".","E","0","2","0">>

\* s_signals_E001 is the text 'signals.E001'
s_signals_E001 ==
    <<"s","i","g","n","a","l","s",".","E","0","0","1">>

\* s_related_module is the text 'django.db.models.fields.related'
s_related_module ==
    <<"d","j","a","n","g","o",".","d","b",".","m","o","d","e","l","s",".","f","i","e","l","d",
    "s",".","r","e","l","a","t","e","d">>

\* s_dispatcher_module is the text 'django.dispatch.dispatcher'
s_dispatcher_module ==
    <<"d","j","a","n","g","o",".","d","i","s","p","a","t","c","h",".","d","i","s","p","a","t",
    "c","h","e","r">>

\* s_registry_module is the text 'django.apps.registry'
s_registry_module ==
    <<"d","j","a","n","g","o",".","a","p","p","s",".","r","e","g","i","s","t","r","y">>

\* s_resolve_related_class is the text 'resolve_related_class'
s_resolve_related_class ==
    <<"r","e","s","o","l","v","e","_","r","e","l","a","t","e","d","_","c","l","a","s","s">>

\* s_set_managed is the text 'set_managed'
s_set_managed ==
    <<"s","e","t","_","m","a","n","a","g","e","d">>

\* s_connect is the text 'connect'
s_connect ==
    <<"c","o","n","n","e","c","t">>

\* s_apply_next_model is the text 'apply_next_model'
s_apply_next_model ==
    <<"a","p","p","l","y","_","n","e","x","t","_","m","o","d","e","l">>

\* s_pre_init is the text 'pre_init'
s_pre_init ==
    <<"p","r","e","_","i","n","i","t">>

\* s_post_init is the text 'post_init'
s_post_init ==
    <<"p","o","s","t","_","i","n","i","t">>

\* s_pre_save is the text 'pre_save'
s_pre_save ==
    <<"p","r","e","_","s","a","v","e">>

\* s_post_save is the text 'post_save'
s_post_save ==
    <<"p","o","s","t","_","s","a","v","e">>

\* s_pre_delete is the text 'pre_delete'
s_pre_delete ==
    <<"p","r","e","_","d","e","l","e","t","e">>

\* s_post_delete is the text 'post_delete'
s_post_delete ==
    <<"p","o","s","t","_","d","e","l","e","t","e">>

\* s_m2m_changed is the text 'm2m_changed'
s_m2m_changed ==
    <<"m","2","m","_","c","h","a","n","g","e","d">>

\* s_class_prepared is the text 'class_prepared'
s_class_prepared ==
    <<"c","l","a","s","s","_","p","r","e","p","a","r","e","d">>

\* s_pre_migrate is the text 'pre_migrate'
s_pre_migrate ==
    <<"p","r","e","_","m","i","g","r","a","t","e">>

\* s_post_migrate is the text 'post_migrate'
s_post_migrate ==
    <<"p","o","s","t","_","m","i","g","r","a","t","e">>

\* s_tests_module is the text 'model_validation.tests'
s_tests_module ==
    <<"m","o","d","e","l","_","v","a","l","i","d","a","t","i","o","n",".","t","e","s","t","s">>

\* s_on_post_init is the text 'on_post_init'
s_on_post_init ==
    <<"o","n","_","p","o","s","t","_","i","n","i","t">>

\* s_OnPostInit is the text 'OnPostInit'
s_OnPostInit ==
    <<"O","n","P","o","s","t","I","n","i","t">>

\* s_missing_app_Model is the text 'missing-app.Model'
s_missing_app_Model ==
    <<"m","i","s","s","i","n","g","-","a","p","p",".","M","o","d","e","l">>

\* s_auth_User is the text 'auth.User'
s_auth_User ==
    <<"a","u","t","h",".","U","s","e","r">>

\* s_auth is the text 'auth'
s_auth ==
    <<"a","u","t","h">>

\* s_user is the text 'user'
s_user ==
    <<"u","s","e","r">>

\* s_missing_app is the text 'missing-app'
s_missing_app ==
    <<"m","i","s","s","i","n","g","-","a","p","p">>

\* expected_function_msg is the text "The 'on_post_init' function was connected to the 'post_init' signal with a lazy reference to the 'missing-app.model' sender, which has not been installed."
expected_function_msg ==
    <<"T","h","e"," ","'","o","n","_","p","o","s","t","_","i","n","i","t","'"," ","f","u","n",
    "c","t","i","o","n"," ","w","a","s"," ","c","o","n","n","e","c","t","e","d"," ","t","o"," ",
    "t","h","e"," ","'","p","o","s","t","_","i","n","i","t","'"," ","s","i","g","n","a","l"," ",
    "w","i","t","h"," ","a"," ","l","a","z","y"," ","r","e","f","e","r","e","n","c","e"," ","t",
    "o"," ","t","h","e"," ","'","m","i","s","s","i","n","g","-","a","p","p",".","m","o","d","e",
    "l","'"," ","s","e","n","d","e","r",","," ","w","h","i","c","h"," ","h","a","s"," ","n","o",
    "t"," ","b","e","e","n"," ","i","n","s","t","a","l","l","e","d",".">>

\* expected_instance_msg is the text "An instance of the 'OnPostInit' class was connected to the 'post_init' signal with a lazy reference to the 'missing-app.model' sender, which has not been installed."
expected_instance_msg ==
    <<"A","n"," ","i","n","s","t","a","n","c","e"," ","o","f"," ","t","h","e"," ","'","O","n",
    "P","o","s","t","I","n","i","t","'"," ","c","l","a","s","s"," ","w","a","s"," ","c","o","n",
    "n","e","c","t","e","d"," ","t","o"," ","t","h","e"," ","'","p","o","s","t","_","i","n","i",
    "t","'"," ","s","i","g","n","a","l"," ","w","i","t","h"," ","a"," ","l","a","z","y"," ","r",
    "e","f","e","r","e","n","c","e"," ","t","o"," ","t","h","e"," ","'","m","i","s","s","i","n",
    "g","-","a","p","p",".","m","o","d","e","l","'"," ","s","e","n","d","e","r",","," ","w","h",
    "i","c","h"," ","h","a","s"," ","n","o","t"," ","b","e","e","n"," ","i","n","s","t","a","l",
    "l","e","d",".">>

\* s_myapp_models is the text 'myapp.models'
s_myapp_models ==
    <<"m","y","a","p","p",".","m","o","d","e","l","s">>

\* s_callback is the text 'callback'
s_callback ==
    <<"c","a","l","l","b","a","c","k">>

\* s_callback_repr is the text '<function callback>'
s_callback_repr ==
    <<"<","f","u","n","c","t","i","o","n"," ","c","a","l","l","b","a","c","k",">">>

\* s_resolve_related_class_repr is the text '<function resolve_related_class>'
s_resolve_related_class_repr ==
    <<"<","f","u","n","c","t","i","o","n"," ","r","e","s","o","l","v","e","_","r","e","l","a",
    "t","e","d","_","c","l","a","s","s",">">>

\* s_set_managed_repr is the text '<function set_managed>'
s_set_managed_repr ==
    <<"<","f","u","n","c","t","i","o","n"," ","s","e","t","_","m","a","n","a","g","e","d",">">>

\* s_connect_repr is the text '<function connect>'
s_connect_repr ==
    <<"<","f","u","n","c","t","i","o","n"," ","c","o","n","n","e","c","t",">">>

\* s_bound_connect_repr is the text '<bound method ModelSignal.connect>'
s_bound_connect_repr ==
    <<"<","b","o","u","n","d"," ","m","e","t","h","o","d"," ","M","o","d","e","l","S","i","g",
    "n","a","l",".","c","o","n","n","e","c","t",">">>

\* s_apply_next_model_repr is the text '<function apply_next_model>'
s_apply_next_model_repr ==
    <<"<","f","u","n","c","t","i","o","n"," ","a","p","p","l","y","_","n","e","x","t","_","m",
    "o","d","e","l",">">>

\* s_author_field is the text 'myapp.Book.author'
s_author_field ==
    <<"m","y","a","p","p",".","B","o","o","k",".","a","u","t","h","o","r">>

\* s_uid is the text 'uid'
s_uid ==
    <<"u","i","d">>

\* s_Unhandled is the text 'Unhandled lazy reference'
s_Unhandled ==
    <<"U","n","h","a","n","d","l","e","d"," ","l","a","z","y"," ","r","e","f","e","r","e","n",
    "c","e">>

\* s_The_quote is the text "The '"
s_The_quote ==
    <<"T","h","e"," ","'">>

\* s_quote_function is the text "' function"
s_quote_function ==
    <<"'"," ","f","u","n","c","t","i","o","n">>

\* s_An_instance_of_the is the text "An instance of the '"
s_An_instance_of_the ==
    <<"A","n"," ","i","n","s","t","a","n","c","e"," ","o","f"," ","t","h","e"," ","'">>

\* s_quote_class is the text "' class"
s_quote_class ==
    <<"'"," ","c","l","a","s","s">>

\* s_was_connected_to_the is the text " was connected to the '"
s_was_connected_to_the ==
    <<" ","w","a","s"," ","c","o","n","n","e","c","t","e","d"," ","t","o"," ","t","h","e"," ",
    "'">>

\* s_signal_with_a_lazy_reference is the text "' signal with a lazy reference to the '"
s_signal_with_a_lazy_reference ==
    <<"'"," ","s","i","g","n","a","l"," ","w","i","t","h"," ","a"," ","l","a","z","y"," ","r",
    "e","f","e","r","e","n","c","e"," ","t","o"," ","t","h","e"," ","'">>

\* s_sender_not_installed is the text "' sender, which has not been installed."
s_sender_not_installed ==
    <<"'"," ","s","e","n","d","e","r",","," ","w","h","i","c","h"," ","h","a","s"," ","n","o",
    "t"," ","b","e","e","n"," ","i","n","s","t","a","l","l","e","d",".">>

(***************************************************************************)
(* Python values                                                           *)
(***************************************************************************)

None == [type |-> "NoneType"]

\* a str object holding the text s
Str(s) == [type |-> "str", value |-> s]

\* {}
EmptyDict == [k \in {} |-> None]

hasattr(o, name) == name \in DOMAIN o

\* getattr(o, name, default)
getattr(o, name, default) == IF hasattr(o, name) THEN o[name] ELSE default

\* d.get(key, default)
dict_get(d, key, default) == IF key \in DOMAIN d THEN d[key] ELSE default

\* d.update(other): the keys of other override those of d
dict_update(d, other) ==
    [k \in DOMAIN d \cup DOMAIN other |-> IF k \in DOMAIN other THEN other[k] ELSE d[k]]

\* the result of a call: a value returned, or an exception raised
Return(v) == [raised |-> FALSE, value |-> v]

Raise(exc) == [raised |-> TRUE, exc |-> exc]

\* str(v), as the %s conversion takes it: the text of a str, __str__() of anything else
text_of(v) == IF v.type = "str" THEN v.value ELSE v["__str__"]

\* s.find(c, i): the first position from i on where s holds the character c, Len(s) + 1 if none
find(s, c, i) ==
    CHOOSE p \in i..(Len(s) + 1) :
        /\ p = Len(s) + 1 \/ s[p] = c
        /\ \A k \in i..(p - 1) : s[k] # c

RECURSIVE format_from(_, _, _)
\* fmt % params, from position i on, for a format whose conversions are all %(name)s
format_from(fmt, i, params) ==
    LET p == find(fmt, "%", i) IN
    IF p > Len(fmt) THEN SubSeq(fmt, i, Len(fmt))
    ELSE LET close == find(fmt, ")", p)
             name == SubSeq(fmt, p + 2, close - 1)
         IN  SubSeq(fmt, i, p - 1) \o text_of(params[name])
                 \o format_from(fmt, close + 2, params)

\* fmt % params for a dict params
format(fmt, params) == format_from(fmt, 1, params)

\* fmt % value for a str value and a format with one %s conversion
format1(fmt, value) ==
    LET p == find(fmt, "%", 1)
    IN  SubSeq(fmt, 1, p - 1) \o value \o SubSeq(fmt, p + 2, Len(fmt))

RECURSIVE join(_, _)
\* sep.join(parts)
join(sep, parts) ==
    IF Len(parts) = 0 THEN <<>>
    ELSE IF Len(parts) = 1 THEN parts[1]
    ELSE parts[1] \o sep \o join(sep, Tail(parts))

\* c.lower() for one character
lower_char(c) == IF Ord[c] >= Ord["A"] /\ Ord[c] <= Ord["Z"] THEN Chr(Ord[c] + 32) ELSE c

\* s.lower()
lower(s) == [i \in DOMAIN s |-> lower_char(s[i])]

RECURSIVE split_from(_, _, _, _)
\* s.split(sep) for a one-character sep: the pieces of s from position i on, cur being the piece in progress
split_from(s, sep, i, cur) ==
    IF i > Len(s) THEN <<cur>>
    ELSE IF s[i] = sep THEN <<cur>> \o split_from(s, sep, i + 1, <<>>)
    ELSE split_from(s, sep, i + 1, Append(cur, s[i]))

split(s, sep) == split_from(s, sep, 1, <<>>)

\* a < b for two str: code points are compared at the first position where they differ,
\* and a proper prefix is smaller
str_lt(a, b) ==
    LET n == IF Len(a) < Len(b) THEN Len(a) ELSE Len(b)
        p == CHOOSE i \in 1..(n + 1) :
                 /\ i = n + 1 \/ a[i] # b[i]
                 /\ \A k \in 1..(i - 1) : a[k] = b[k]
    IN  IF p > n THEN Len(a) < Len(b) ELSE Ord[a[p]] < Ord[b[p]]

RECURSIVE insort(_, _)
\* insert error e after every element of the sorted list whose msg is not greater
insort(sorted_list, e) ==
    IF Len(sorted_list) = 0 THEN <<e>>
    ELSE IF str_lt(e.msg, sorted_list[1].msg) THEN <<e>> \o sorted_list
    ELSE <<sorted_list[1]>> \o insort(Tail(sorted_list), e)

RECURSIVE sorted_by_msg(_)
\* sorted(errors, key=lambda error: error.msg): ascending and stable
sorted_by_msg(errors) ==
    IF Len(errors) = 0 THEN <<>>
    ELSE insort(sorted_by_msg(SubSeq(errors, 1, Len(errors) - 1)), errors[Len(errors)])

(***************************************************************************)
(* django.db.models.signals                                                *)
(***************************************************************************)

\* a signal object; ModelSignal is a subclass of Signal
Signal(id) == [type |-> "Signal", id |-> id]

ModelSignal(id) == [type |-> "ModelSignal", id |-> id]

\* vars(models.signals): the signals the module defines, by name
signals_vars ==
    <<  <<s_class_prepared, Signal("class_prepared")>>,
        <<s_pre_init, ModelSignal("pre_init")>>,
        <<s_post_init, ModelSignal("post_init")>>,
        <<s_pre_save, ModelSignal("pre_save")>>,
        <<s_post_save, ModelSignal("post_save")>>,
        <<s_pre_delete, ModelSignal("pre_delete")>>,
        <<s_post_delete, ModelSignal("post_delete")>>,
        <<s_m2m_changed, ModelSignal("m2m_changed")>>,
        <<s_pre_migrate, Signal("pre_migrate")>>,
        <<s_post_migrate, Signal("post_migrate")>>  >>

(***************************************************************************)
(* django.core.checks.model_checks._check_lazy_references                  *)
(***************************************************************************)

\* Error(msg, hint=hint, obj=obj, id=id)
Error(msg, hint, o, id) == [type |-> "Error", msg |-> msg, hint |-> hint, obj |-> o, id |-> id]

\* {signal: name for name, signal in vars(models.signals).items() if isinstance(signal, ModelSignal)}
model_signals ==
    LET entries == {signals_vars[i] : i \in DOMAIN signals_vars}
        kept == {e \in entries : e[2].type = "ModelSignal"}
    IN  [signal \in {e[2] : e \in kept} |-> (CHOOSE e \in kept : e[2] = signal)[1]]

\* the condition of the while loop of extract_operation
extract_test(operation) == hasattr(operation, "func")

\* one pass through the body of the while loop of extract_operation
extract_body(operation, args, keywords) ==
    LET more_args == getattr(operation, "args", <<>>)
        more_keywords == getattr(operation, "keywords", EmptyDict)
    IN  IF more_keywords = None
        THEN Raise("TypeError")    \* keywords.update(None)
        ELSE Return([operation |-> operation.func,
                     args |-> args \o more_args,
                     keywords |-> dict_update(keywords, more_keywords)])

RECURSIVE extract_loop(_, _, _)
extract_loop(operation, args, keywords) ==
    IF ~extract_test(operation)
    THEN Return([operation |-> operation, args |-> args, keywords |-> keywords])
    ELSE LET r == extract_body(operation, args, keywords)
         IN  IF r.raised THEN r
             ELSE extract_loop(r.value.operation, r.value.args, r.value.keywords)

extract_operation(o) == extract_loop(o, <<>>, EmptyDict)

field_error(model_key, func, args, keywords) ==
    IF "field" \notin DOMAIN keywords
    THEN Raise("KeyError")    \* keywords['field']
    ELSE LET params == (s_model :> Str(join(<<".">>, model_key)))
                       @@ (s_field :> keywords["field"])
         IN  Return(Error(format(field_error_msg, params), None, keywords["field"],
                          Str(s_fields_E020)))

\* signal_connect_error looking up func, not func.__self__, in model_signals
signal_connect_error_by_func(model_key, func, args, keywords) ==
    IF Len(args) = 0
    THEN Raise("IndexError")
    ELSE LET receiver == args[1] IN
    IF ~hasattr(func, "__self__")
    THEN Raise("AttributeError")
    ELSE LET description ==
                 IF receiver.type = "function"
                 THEN format1(function_description, receiver["__name__"])
                 ELSE format1(instance_description, receiver["__class__"]["__name__"])
             signal_name == dict_get(model_signals, func, s_unknown)
             params == (s_model :> Str(join(<<".">>, model_key)))
                       @@ (s_receiver :> Str(description))
                       @@ (s_signal :> Str(signal_name))
         IN  Return(Error(format(signal_connect_error_msg, params), None,
                          Str(receiver["__module__"]), Str(s_signals_E001)))

signal_connect_error(model_key, func, args, keywords) ==
    IF Len(args) = 0
    THEN Raise("IndexError")    \* args[0]
    ELSE LET receiver == args[1] IN
    IF ~hasattr(func, "__self__")
    THEN Raise("AttributeError")    \* func.__self__
    ELSE LET description ==
                 IF receiver.type = "function"    \* isinstance(receiver, types.FunctionType)
                 THEN format1(function_description, receiver["__name__"])
                 ELSE format1(instance_description, receiver["__class__"]["__name__"])
             signal_name == dict_get(model_signals, func["__self__"], s_unknown)
             params == (s_model :> Str(join(<<".">>, model_key)))
                       @@ (s_receiver :> Str(description))
                       @@ (s_signal :> Str(signal_name))
         IN  Return(Error(format(signal_connect_error_msg, params), None,
                          Str(receiver["__module__"]), Str(s_signals_E001)))

default_error(model_key, func, args, keywords) ==
    LET params == (s_model :> Str(join(<<".">>, model_key))) @@ (s_op :> func)
    IN  Return(Error(format(default_error_msg, params), None, func, None))

\* a reference to one of the error functions above
Fn(name) == [type |-> "function", fn |-> name]

known_lazy ==
    (<<s_related_module, s_resolve_related_class>> :> Fn("field_error"))
    @@ (<<s_related_module, s_set_managed>> :> None)
    @@ (<<s_dispatcher_module, s_connect>> :> Fn("signal_connect_error"))

\* error_fn_for with known_lazy.get(key), its default left out
error_fn_no_default(key) == dict_get(known_lazy, key, None)

\* the lookup of the error function in build_error
error_fn_for(key) == dict_get(known_lazy, key, Fn("default_error"))

build_error(model_key, func, args, keywords) ==
    IF ~hasattr(func, "__module__") \/ ~hasattr(func, "__name__")
    THEN Raise("AttributeError")    \* func.__module__, func.__name__
    ELSE LET key == <<func["__module__"], func["__name__"]>>
             error_fn == error_fn_for(key)
         IN  IF error_fn = None THEN Return(None)
             ELSE IF error_fn.fn = "field_error"
             THEN field_error(model_key, func, args, keywords)
             ELSE IF error_fn.fn = "signal_connect_error"
             THEN signal_connect_error(model_key, func, args, keywords)
             ELSE default_error(model_key, func, args, keywords)

\* build_error(model_key, *extract_operation(func))
build_error_for(model_key, func) ==
    LET e == extract_operation(func)
    IN  IF e.raised THEN e
        ELSE build_error(model_key, e.value.operation, e.value.args, e.value.keywords)

RECURSIVE pairs_of(_, _)
\* the (model_key, func) pairs the generator visits, model keys taken in the given order
pairs_of(operations, order) ==
    IF Len(order) = 0 THEN <<>>
    ELSE [i \in 1..Len(operations[order[1]]) |-> <<order[1], operations[order[1]][i]>>]
         \o pairs_of(operations, Tail(order))

RECURSIVE filter_errors(_, _)
\* filter(None, (build_error(...) for ...)): the errors built so far are acc;
\* an exception raised while building one ends the iteration
filter_errors(pairs, acc) ==
    IF Len(pairs) = 0 THEN Return(acc)
    ELSE LET r == build_error_for(pairs[1][1], pairs[1][2])
         IN  IF r.raised THEN r
             ELSE IF r.value = None THEN filter_errors(Tail(pairs), acc)
             ELSE filter_errors(Tail(pairs), Append(acc, r.value))

\* the orders in which a set can be iterated
Orders(S) == {o \in [1..Cardinality(S) -> S] : \A i, j \in DOMAIN o : i # j => o[i] # o[j]}

\* ignore or set()
ignore_or_empty(ignore) == IF ignore = None THEN {} ELSE ignore.items

\* pending_models_of with the ignore set left out
pending_models_all(operations, ignore) == DOMAIN operations

\* set(app_registry._pending_operations) - (ignore or set())
pending_models_of(operations, ignore) == DOMAIN operations \ ignore_or_empty(ignore)

\* sorted_errors with the sort left out: the errors in the order they were built
sorted_errors_unsorted(operations, order) == filter_errors(pairs_of(operations, order), <<>>)

\* the errors of the sorted(...) expression, the set being iterated in the given order
sorted_errors(operations, order) ==
    LET built == filter_errors(pairs_of(operations, order), <<>>)
    IN  IF built.raised THEN built ELSE Return(sorted_by_msg(built.value))

\* check_lazy_references_body with the short-circuit left out
check_without_short_circuit(operations, ignore, order) ==
    LET errors == sorted_errors(operations, order)
    IN  [result |-> errors,
         printed |-> IF errors.raised THEN 0 ELSE Len(errors.value) + 2,
         read_signals |-> TRUE,
         read_operations |-> TRUE]

\* _check_lazy_references(app_registry, ignore), operations being
\* app_registry._pending_operations: what it returns or raises, the lines it
\* prints, whether it builds model_signals and whether it reads the lists of
\* pending operations
check_lazy_references_body(operations, ignore, order) ==
    IF pending_models_of(operations, ignore) = {}
    THEN [result |-> Return(<<>>), printed |-> 0, read_signals |-> FALSE, read_operations |-> FALSE]
    ELSE LET errors == sorted_errors(operations, order)
         IN  [result |-> errors,
              printed |-> IF errors.raised THEN 0 ELSE Len(errors.value) + 2,
              read_signals |-> TRUE,
              read_operations |-> TRUE]

(***************************************************************************)
(* Callables                                                               *)
(***************************************************************************)

\* a plain function defined in a module
function(module, name, repr) ==
    [type |-> "function", __module__ |-> module, __name__ |-> name, __str__ |-> repr]

\* functools.partial(func, *args, **keywords)
partial(func, args, keywords) ==
    [type |-> "partial", func |-> func, args |-> args, keywords |-> keywords]

\* super(ModelSignal, self).connect: Signal.connect bound to the signal
bound_connect(self) ==
    [type |-> "method", __module__ |-> s_dispatcher_module, __name__ |-> s_connect,
     __self__ |-> self, __str__ |-> s_bound_connect_repr]

\* def on_post_init(**kwargs) of the tests
on_post_init ==
    [type |-> "function", __module__ |-> s_tests_module, __name__ |-> s_on_post_init]

\* OnPostInit() of the tests: an instance of a class defining __call__
OnPostInit_instance ==
    [type |-> "instance", __module__ |-> s_tests_module,
     __class__ |-> [__name__ |-> s_OnPostInit, __module__ |-> s_tests_module]]

(***************************************************************************)
(* The application registry (django.apps.registry.Apps)                    *)
(***************************************************************************)

\* the registries: the global one, `apps`
Registries == {"apps"}

\* a model class: its _meta names its key and the registry it belongs to
ModelClass(app_label, model_name, registry) ==
    [type |-> "model",
     _meta |-> [app_label |-> app_label, model_name |-> model_name, apps |-> registry]]

User == ModelClass(s_auth, s_user, "apps")

ModelClasses == {User}

\* make_model_tuple(model): "app_label.ModelName" gives (app_label, modelname)
make_model_tuple(model) ==
    IF model.type = "str"
    THEN LET parts == split(model.value, ".") IN <<parts[1], lower(parts[2])>>
    ELSE <<model._meta.app_label, model._meta.model_name>>

\* Apps.get_registered_model(app_label, model_name) for a registered model
get_registered_model(registry, model_key) ==
    CHOOSE m \in ModelClasses : m._meta.apps = registry /\ make_model_tuple(m) = model_key

\* Signal.connect(self, receiver, sender=None, weak=True, dispatch_uid=None)
Signal_connect(self, args, kwargs) ==
    [signal |-> self,
     receiver |-> args[1],
     sender |-> IF Len(args) >= 2 THEN args[2] ELSE dict_get(kwargs, "sender", None),
     weak |-> dict_get(kwargs, "weak", TRUE),
     dispatch_uid |-> dict_get(kwargs, "dispatch_uid", None)]

RECURSIVE call(_, _, _)
\* f(*args, **kwargs): the subscriptions the call makes. A partial calls its func
\* with its own arguments first and the call's keywords over its own.
call(f, args, kwargs) ==
    IF f.type = "partial"
    THEN call(f.func, f.args \o args,
              dict_update(IF f.keywords = None THEN EmptyDict ELSE f.keywords, kwargs))
    ELSE IF f.type = "method" /\ f["__name__"] = s_connect /\ Len(args) >= 1
    THEN {Signal_connect(f["__self__"], args, kwargs)}
    ELSE {}

\* the callback lazy_model_operation defines locally and annotates with func
apply_next_model(func) ==
    [type |-> "function", __module__ |-> s_registry_module, __name__ |-> s_apply_next_model,
     __str__ |-> s_apply_next_model_repr, func |-> func]

\* Apps.lazy_model_operation(function, *model_keys) for at most one model key:
\* the pending operations of the registry and the subscriptions after the call
lazy_model_operation(registry, f, model_keys) ==
    IF Len(model_keys) = 0
    THEN [pending |-> pending, receivers |-> receivers \cup call(f, <<>>, EmptyDict)]
    ELSE LET next_model == model_keys[1] IN
         IF next_model \in all_models[registry]
         THEN [pending |-> pending,
               receivers |-> receivers
                   \cup call(f, <<get_registered_model(registry, next_model)>>, EmptyDict)]
         ELSE LET ops == pending[registry]
                  queue == dict_get(ops, next_model, <<>>)
              IN  [pending |-> [pending EXCEPT ![registry] =
                                   dict_update(ops, next_model :> Append(queue, apply_next_model(f)))],
                   receivers |-> receivers]

\* the (registry, model key) pairs that have a list of pending operations
PendingSlots(p) == UNION {{<<r, k>> : k \in DOMAIN p[r]} : r \in Registries}

RECURSIVE SumLen(_, _)
SumLen(p, slots) ==
    IF slots = {} THEN 0
    ELSE LET s == CHOOSE x \in slots : TRUE
         IN  Len(p[s[1]][s[2]]) + SumLen(p, slots \ {s})

\* the number of operations pending in all registries
PendingCount(p) == SumLen(p, PendingSlots(p))

(***************************************************************************)
(* Bounds and the inputs of the operations                                 *)
(***************************************************************************)

\* at most this many operations are registered: those pending and the subscriptions made
MaxOperations == 2

\* at most this many wrappers around a callable given to extract_operation
MaxDepth == 3

post_init == ModelSignal("post_init")

\* a ModelSignal defined outside django.db.models.signals
custom_signal == ModelSignal("custom_signal")

Senders == {None, Str(s_missing_app_Model), Str(s_auth_User), User}

\* the (signal, receiver, weak, dispatch_uid) that connect is called with: the two
\* calls of test_model_signal, and others with a signal that models.signals does
\* not define, weak=False and a dispatch_uid
ConnectCalls ==
    {<<post_init, on_post_init, TRUE, None>>,
     <<post_init, OnPostInit_instance, TRUE, None>>,
     <<post_init, on_post_init, FALSE, Str(s_uid)>>,
     <<custom_signal, on_post_init, TRUE, None>>,
     <<custom_signal, OnPostInit_instance, FALSE, Str(s_uid)>>}

missing_key == <<s_missing_app, s_model>>

user_key == <<s_auth, s_user>>

ModelKeys == {missing_key, user_key}

author_field == [type |-> "field", __str__ |-> s_author_field]

resolve_related_class ==
    function(s_related_module, s_resolve_related_class, s_resolve_related_class_repr)

set_managed == function(s_related_module, s_set_managed, s_set_managed_repr)

callback == function(s_myapp_models, s_callback, s_callback_repr)

\* a plain function named connect in the dispatcher module: it has no __self__
unbound_connect == function(s_dispatcher_module, s_connect, s_connect_repr)

\* the functions other code hands to lazy_model_operation
LazyFunctions ==
    {partial(resolve_related_class, <<>>, [field |-> author_field]),
     partial(set_managed, <<>>, EmptyDict),
     partial(set_managed, <<>>, None),
     callback,
     partial(resolve_related_class, <<>>, [related |-> author_field]),
     partial(bound_connect(post_init), <<on_post_init>>, [weak |-> TRUE, dispatch_uid |-> None]),
     partial(bound_connect(post_init), <<>>, [weak |-> TRUE, dispatch_uid |-> None]),
     partial(unbound_connect, <<on_post_init>>, [weak |-> TRUE, dispatch_uid |-> None])}

\* the ignore arguments: None, or a set of model keys
IgnoreArguments == {None} \cup {[type |-> "set", items |-> S] : S \in SUBSET ModelKeys}

(***************************************************************************)
(* ModelSignal.connect                                                     *)
(***************************************************************************)

\* connect_partial with the weak flag left out of the partial
connect_partial_without_weak(self, receiver, weak, dispatch_uid) ==
    partial(bound_connect(self), <<receiver>>, [dispatch_uid |-> dispatch_uid])

\* partial(super(ModelSignal, self).connect, receiver, weak=weak, dispatch_uid=dispatch_uid)
connect_partial(self, receiver, weak, dispatch_uid) ==
    partial(bound_connect(self), <<receiver>>, [weak |-> weak, dispatch_uid |-> dispatch_uid])

\* bool(sender)
truthy(sender) ==
    IF sender = None THEN FALSE
    ELSE IF sender.type = "str" THEN Len(sender.value) > 0
    ELSE TRUE

\* connect_models giving no model key, whatever the sender
connect_models_none(sender) == <<>>

\* [make_model_tuple(sender)] if sender else []
connect_models(sender) == IF truthy(sender) THEN <<make_model_tuple(sender)>> ELSE <<>>

\* sender._meta.apps if hasattr(sender, '_meta') else apps
connect_app_registry(sender) == IF hasattr(sender, "_meta") THEN sender._meta.apps ELSE "apps"

(***************************************************************************)
(* The operations                                                          *)
(***************************************************************************)

NoFrame == [pc |-> "idle"]

Init ==
    /\ all_models = [r \in Registries |-> {}]
    /\ pending = [r \in Registries |-> EmptyDict]
    /\ receivers = {}
    /\ ret = [op |-> "init"]
    /\ stdout = 0
    /\ signals_read = FALSE
    /\ operations_read = FALSE
    /\ frame = NoFrame

\* signal.connect(receiver, sender=sender, weak=weak, dispatch_uid=dispatch_uid)
Connect ==
    \E c \in ConnectCalls, sender \in Senders :
        LET self == c[1]
            receiver == c[2]
            weak == c[3]
            dispatch_uid == c[4]
            connect == connect_partial(self, receiver, weak, dispatch_uid)
            models == connect_models(sender)
            app_registry == connect_app_registry(sender)
            after == lazy_model_operation(app_registry, connect, models)
        IN  /\ PendingCount(after.pending) + Cardinality(after.receivers) <= MaxOperations
            /\ pending' = after.pending
            /\ receivers' = after.receivers
            /\ ret' = [op |-> "connect", self |-> self, receiver |-> receiver,
                       sender |-> sender, weak |-> weak, dispatch_uid |-> dispatch_uid,
                       models |-> models, app_registry |-> app_registry]
            /\ stdout' = 0
            /\ signals_read' = FALSE
            /\ operations_read' = FALSE
            /\ UNCHANGED <<all_models, frame>>

\* apps.lazy_model_operation(function, model_key), as related fields call it
LazyModelOperation ==
    \E f \in LazyFunctions, model_key \in ModelKeys :
        LET after == lazy_model_operation("apps", f, <<model_key>>)
        IN  /\ PendingCount(after.pending) + Cardinality(after.receivers) <= MaxOperations
            /\ pending' = after.pending
            /\ receivers' = after.receivers
            /\ ret' = [op |-> "lazy_model_operation", function |-> f, model_key |-> model_key]
            /\ stdout' = 0
            /\ signals_read' = FALSE
            /\ operations_read' = FALSE
            /\ UNCHANGED <<all_models, frame>>

\* Apps.register_model for a model class, with do_pending_operations: the
\* operations pending for the model are removed and each is called with it
RegisterModel ==
    \E model \in ModelClasses :
        LET registry == model._meta.apps
            model_key == make_model_tuple(model)
            ops == dict_get(pending[registry], model_key, <<>>)
            made == UNION {call(ops[i].func, <<model>>, EmptyDict) : i \in DOMAIN ops}
        IN  /\ model_key \notin all_models[registry]
            /\ all_models' = [all_models EXCEPT ![registry] = @ \cup {model_key}]
            /\ pending' = [pending EXCEPT ![registry] =
                              [k \in DOMAIN @ \ {model_key} |-> @[k]]]
            /\ receivers' = receivers \cup made
            /\ ret' = [op |-> "register_model", model |-> model]
            /\ stdout' = 0
            /\ signals_read' = FALSE
            /\ operations_read' = FALSE
            /\ UNCHANGED frame

\* CheckLazyReferences popping the lists of operations it reads
CheckLazyReferences_popping ==
    \E app_registry \in Registries, ignore \in IgnoreArguments :
        \E order \in Orders(pending_models_of(pending[app_registry], ignore)) :
            LET done == check_lazy_references_body(pending[app_registry], ignore, order)
                visited == pending_models_of(pending[app_registry], ignore)
            IN  /\ ret' = [op |-> "check", app_registry |-> app_registry, ignore |-> ignore,
                           result |-> done.result]
                /\ stdout' = done.printed
                /\ signals_read' = done.read_signals
                /\ operations_read' = done.read_operations
                /\ pending' = [pending EXCEPT ![app_registry] =
                                  [k \in DOMAIN @ \ visited |-> @[k]]]
                /\ UNCHANGED <<all_models, receivers, frame>>

\* _check_lazy_references(app_registry, ignore)
CheckLazyReferences ==
    \E app_registry \in Registries, ignore \in IgnoreArguments :
        \E order \in Orders(pending_models_of(pending[app_registry], ignore)) :
            LET done == check_lazy_references_body(pending[app_registry], ignore, order)
            IN  /\ ret' = [op |-> "check", app_registry |-> app_registry, ignore |-> ignore,
                           result |-> done.result]
                /\ stdout' = done.printed
                /\ signals_read' = done.read_signals
                /\ operations_read' = done.read_operations
                /\ UNCHANGED <<all_models, pending, receivers, frame>>

\* the registry is filled by the callers of lazy_model_operation and checked
Next == LazyModelOperation \/ RegisterModel \/ CheckLazyReferences

Spec == Init /\ [][Next]_vars

\* the registry is filled by ModelSignal.connect and checked
NextSignal == Connect \/ RegisterModel \/ CheckLazyReferences

SpecSignal == Init /\ [][NextSignal]_vars

(***************************************************************************)
(* extract_operation, one pass of its loop at a time                       *)
(***************************************************************************)

\* the innermost callables: a plain function and a bound method
Bases == {callback, bound_connect(post_init)}

\* the positional arguments a partial may hold
ArgsChoices == {<<>>, <<1>>, <<2, 3>>}

\* the keywords attribute a partial may have: a dict, or None, which is what a
\* partial made without keyword arguments has on CPython 2.7 and up to 3.5.1
KeywordsChoices == {None, EmptyDict, [a |-> 1], [a |-> 2, b |-> 3]}

RECURSIVE Chains(_)
\* the callables with at most n wrappers: partials, and callbacks annotated with func
Chains(n) ==
    IF n = 0 THEN Bases
    ELSE LET inner == Chains(n - 1)
         IN  inner
             \cup {partial(f, a, k) : f \in inner, a \in ArgsChoices, k \in KeywordsChoices}
             \cup {apply_next_model(f) : f \in inner}

\* operation, args, keywords = obj, [], {}
InitExtract ==
    /\ all_models = [r \in Registries |-> {}]
    /\ pending = [r \in Registries |-> EmptyDict]
    /\ receivers = {}
    /\ ret = [op |-> "init"]
    /\ stdout = 0
    /\ signals_read = FALSE
    /\ operations_read = FALSE
    /\ \E o \in Chains(MaxDepth) :
           frame = [pc |-> "loop", obj |-> o, operation |-> o, args |-> <<>>,
                    keywords |-> EmptyDict]

\* the loop condition holds: one pass through the body
ExtractStep ==
    /\ frame.pc = "loop"
    /\ extract_test(frame.operation)
    /\ LET r == extract_body(frame.operation, frame.args, frame.keywords)
       IN  frame' = IF r.raised
                    THEN [frame EXCEPT !.pc = "raised"]
                    ELSE [pc |-> "loop", obj |-> frame.obj, operation |-> r.value.operation,
                          args |-> r.value.args, keywords |-> r.value.keywords]
    /\ UNCHANGED <<all_models, pending, receivers, ret, stdout, signals_read, operations_read>>

\* the loop condition fails: return operation, args, keywords
ExtractReturn ==
    /\ frame.pc = "loop"
    /\ ~extract_test(frame.operation)
    /\ frame' = [frame EXCEPT !.pc = "returned"]
    /\ UNCHANGED <<all_models, pending, receivers, ret, stdout, signals_read, operations_read>>

NextExtract == ExtractStep \/ ExtractReturn

SpecExtract == InitExtract /\ [][NextExtract]_vars

(***************************************************************************)
(* What the properties below speak of                                      *)
(***************************************************************************)

\* the last operation was a call of _check_lazy_references
Checked == ret.op = "check"

\* and the call returned a list
Returned == Checked /\ ~ret.result.raised

\* the list it returned
Errors == ret.result.value

\* the model keys it was told to ignore
Ignored == IF ret.ignore = None THEN {} ELSE ret.ignore.items

\* the pending operations of the registry it was given
Operations == pending[ret.app_registry]

\* the (model key, position) of every operation pending under the given keys
SlotsUnder(ops, keys) == UNION {{<<k, i>> : i \in DOMAIN ops[k]} : k \in keys}

\* the operations the call had to report: those pending under a key not ignored
Reported == SlotsUnder(Operations, DOMAIN Operations \ Ignored)

RECURSIVE Layers(_)
\* the wrappers of a callable, outermost first
Layers(o) == IF "func" \in DOMAIN o THEN <<o>> \o Layers(o.func) ELSE <<>>

RECURSIVE Innermost(_)
\* the first callable without a func attribute
Innermost(o) == IF "func" \in DOMAIN o THEN Innermost(o.func) ELSE o

RECURSIVE AllArgs(_)
\* the positional arguments of a sequence of wrappers, in order
AllArgs(layers) ==
    IF Len(layers) = 0 THEN <<>>
    ELSE (IF "args" \in DOMAIN layers[1] THEN layers[1].args ELSE <<>>) \o AllArgs(Tail(layers))

\* the keyword arguments of a sequence of wrappers: each key has the value the
\* last wrapper that has it gives it
AllKeywords(layers) ==
    LET Has(i, k) == "keywords" \in DOMAIN layers[i] /\ k \in DOMAIN layers[i].keywords
        keys == UNION {IF "keywords" \in DOMAIN layers[i] THEN DOMAIN layers[i].keywords ELSE {} :
                       i \in DOMAIN layers}
        last(k) == CHOOSE i \in DOMAIN layers :
                       Has(i, k) /\ \A j \in DOMAIN layers : Has(j, k) => j <= i
    IN  [k \in keys |-> layers[last(k)].keywords[k]]

\* which entry of known_lazy an operation falls under
Kind(o) ==
    LET f == Innermost(o) IN
    IF ~("__module__" \in DOMAIN f /\ "__name__" \in DOMAIN f) THEN "other"
    ELSE IF f["__module__"] = s_related_module /\ f["__name__"] = s_resolve_related_class
    THEN "field"
    ELSE IF f["__module__"] = s_related_module /\ f["__name__"] = s_set_managed
    THEN "suppressed"
    ELSE IF f["__module__"] = s_dispatcher_module /\ f["__name__"] = s_connect
    THEN "signal"
    ELSE "other"

\* 'app_label.model_name', quotes included
QuotedKey(k) == <<"'">> \o k[1] \o <<".">> \o k[2] \o <<"'">>

\* the text sub occurs in the text s
Contains(s, sub) ==
    \E i \in 1..(Len(s) - Len(sub) + 1) : SubSeq(s, i, i + Len(sub) - 1) = sub

\* the text s starts with the text sub
StartsWith(s, sub) == Len(s) >= Len(sub) /\ SubSeq(s, 1, Len(sub)) = sub

\* a <= b in the order of texts: b continues a, or a has the smaller code point
\* at the first position where they differ
TextLeq(a, b) ==
    \E n \in 0..Len(a) :
        /\ n <= Len(b)
        /\ \A i \in 1..n : a[i] = b[i]
        /\ \/ n = Len(a)
           \/ n < Len(b) /\ Ord[a[n + 1]] < Ord[b[n + 1]]

(***************************************************************************)
(* C1 - C3, C6, C7, C9: _check_lazy_references, under Spec                 *)
(***************************************************************************)

\* C1: the list _check_lazy_references returns is sorted non-decreasing by
\* message text, whatever the order of iteration and of registration
C1_SortedByMessage ==
    Returned =>
        \A i, j \in DOMAIN Errors : i < j => TextLeq(Errors[i].msg, Errors[j].msg)

\* the generic diagnostic was registered before the field diagnostic, under the
\* same model key, and the field diagnostic ("The field ...") comes out first
C1_Witness ==
    /\ Returned
    /\ ret.ignore = None
    /\ missing_key \in DOMAIN Operations
    /\ Len(Operations[missing_key]) = 2
    /\ Kind(Operations[missing_key][1]) = "other"
    /\ Kind(Operations[missing_key][2]) = "field"
    /\ Len(Errors) = 2
    /\ Errors[1].id = Str(s_fields_E020)
    /\ Errors[2].id = None

\* C2: _check_lazy_references never raises, whatever operation is pending
C2_NeverRaises == Checked => ~ret.result.raised

\* C3: a call of _check_lazy_references leaves _pending_operations as it was:
\* the same keys, and the same operations in the same order under each
C3_RegistryNotMutated == [][ret'.op = "check" => pending' = pending]_vars

\* a call that read two pending operations and returned their diagnostics
C3_Witness == Returned /\ Len(Errors) = 2 /\ PendingCount(pending) = 2

\* C6: the returned list has no diagnostic for an operation pending under an
\* ignored key, and the diagnostics of the other keys are those a call that
\* ignores nothing returns for them
C6_IgnoredKeysAreSilent ==
    Returned =>
        LET Silent(e) == \A k \in Ignored : ~Contains(e.msg, QuotedKey(k))
        IN  /\ \A i \in DOMAIN Errors : Silent(Errors[i])
            /\ \A order \in Orders(DOMAIN Operations) :
                   LET full == sorted_errors(Operations, order)
                   IN  ~full.raised => SelectSeq(full.value, Silent) = Errors

\* operations are pending under an ignored key and under another key, and the
\* call returned a diagnostic
C6_Witness ==
    /\ Returned
    /\ \E k \in Ignored : k \in DOMAIN Operations /\ Kind(Operations[k][1]) # "suppressed"
    /\ Len(Errors) = 1

\* C7: the returned list has exactly one diagnostic for each operation pending
\* under a key not ignored, except the suppressed set_managed: fields.E020 with
\* the field as obj and the model key in the message for resolve_related_class,
\* signals.E001 for a dispatcher connect, and the generic diagnostic with the
\* function as obj for any other operation
C7_OneDiagnosticPerOperation ==
    Returned =>
        LET Op(s) == Operations[s[1]][s[2]]
            Of(kind) == {s \in Reported : Kind(Op(s)) = kind}
            IsField(e) == e.id = Str(s_fields_E020)
            IsSignal(e) == e.id = Str(s_signals_E001)
            IsGeneric(e) == e.id = None
        IN  /\ Len(Errors) = Cardinality(Reported \ Of("suppressed"))
            /\ Cardinality({i \in DOMAIN Errors : IsField(Errors[i])}) = Cardinality(Of("field"))
            /\ Cardinality({i \in DOMAIN Errors : IsSignal(Errors[i])}) = Cardinality(Of("signal"))
            /\ Cardinality({i \in DOMAIN Errors : IsGeneric(Errors[i])}) = Cardinality(Of("other"))
            /\ \A s \in Of("field") :
                   \E i \in DOMAIN Errors :
                       /\ IsField(Errors[i])
                       /\ Errors[i].obj = AllKeywords(Layers(Op(s))).field
                       /\ Contains(Errors[i].msg, QuotedKey(s[1]))
            /\ \A s \in Of("other") :
                   \E i \in DOMAIN Errors :
                       /\ IsGeneric(Errors[i])
                       /\ Errors[i].obj = Innermost(Op(s))
                       /\ StartsWith(Errors[i].msg, s_Unhandled)
                       /\ Contains(Errors[i].msg, QuotedKey(s[1]))

\* a resolve_related_class operation and a set_managed operation are pending
\* and reported, and the list holds the field diagnostic alone
C7_Witness ==
    /\ Returned
    /\ \E s \in Reported : Kind(Operations[s[1]][s[2]]) = "field"
    /\ \E s \in Reported : Kind(Operations[s[1]][s[2]]) = "suppressed"
    /\ Len(Errors) = 1
    /\ Errors[1].id = Str(s_fields_E020)
    /\ Errors[1].obj = author_field

\* C9: when no model key is pending, or all are ignored, the call returns an
\* empty list at once: it does not build model_signals, reads no pending
\* operation and prints nothing
C9_ShortCircuit ==
    (Checked /\ DOMAIN Operations \ Ignored = {}) =>
        /\ ret.result = Return(<<>>)
        /\ ~signals_read
        /\ ~operations_read
        /\ stdout = 0

\* operations are pending, every pending key is ignored, and the call returned
C9_Witness ==
    /\ Checked
    /\ PendingCount(pending) > 0
    /\ DOMAIN Operations \ Ignored = {}
    /\ ret.result = Return(<<>>)

(***************************************************************************)
(* C4, C5, C8: ModelSignal.connect, under SpecSignal                       *)
(***************************************************************************)

\* the model key a string sender of Senders names
NamedKey(sender) == IF sender = Str(s_missing_app_Model) THEN missing_key ELSE user_key

\* the model key of a model class
KeyOfClass(model) == <<model._meta.app_label, model._meta.model_name>>

\* the operation a call of connect defers: the subscribe call with the receiver,
\* the weak flag and the dispatch_uid fixed, in the callback of the registry
Deferred(c) ==
    apply_next_model(partial(bound_connect(c.self), <<c.receiver>>,
                             [weak |-> c.weak, dispatch_uid |-> c.dispatch_uid]))

\* the subscription a call of connect asks for, once its sender is known
Subscription(c, sender) ==
    [signal |-> c.self, receiver |-> c.receiver, sender |-> sender,
     weak |-> c.weak, dispatch_uid |-> c.dispatch_uid]

\* the subscription a deferred operation makes when it is called with a model
SubscriptionOf(o, model) ==
    [signal |-> o.func.func["__self__"], receiver |-> o.func.args[1], sender |-> model,
     weak |-> o.func.keywords.weak, dispatch_uid |-> o.func.keywords.dispatch_uid]

\* C4: connect with a string sender naming a model not yet registered
\* subscribes nothing and adds exactly one deferred operation under the
\* model's key; registering the model calls the deferred operations of its
\* key, which subscribes each receiver with the model as sender and the weak
\* flag and dispatch_uid given to connect, and leaves none pending under it
C4_DeferredUntilRegistered ==
    [][ /\ (/\ ret'.op = "connect"
            /\ ret'.sender.type = "str"
            /\ NamedKey(ret'.sender) \notin all_models["apps"])
           => LET key == NamedKey(ret'.sender)
                  before == dict_get(pending["apps"], key, <<>>)
              IN  /\ receivers' = receivers
                  /\ DOMAIN pending'["apps"] = DOMAIN pending["apps"] \cup {key}
                  /\ pending'["apps"][key] = Append(before, Deferred(ret'))
                  /\ \A k \in DOMAIN pending["apps"] \ {key} :
                         pending'["apps"][k] = pending["apps"][k]
        /\ ret'.op = "register_model"
           => LET key == KeyOfClass(ret'.model)
                  before == dict_get(pending["apps"], key, <<>>)
              IN  /\ key \notin DOMAIN pending'["apps"]
                  /\ \A i \in DOMAIN before :
                         SubscriptionOf(before[i], ret'.model) \in receivers'
      ]_vars

\* the model was registered after connect(on_post_init, sender="auth.User",
\* weak=False, dispatch_uid="uid") and the receiver is subscribed with the
\* model class as sender and nothing is pending
C4_Witness ==
    /\ ret.op = "register_model"
    /\ ret.model = User
    /\ user_key \in all_models["apps"]
    /\ [signal |-> post_init, receiver |-> on_post_init, sender |-> User,
        weak |-> FALSE, dispatch_uid |-> Str(s_uid)] \in receivers
    /\ PendingCount(pending) = 0

\* C5 as stated: with the sender omitted or a model class, the call is made
\* with zero model keys and the receiver is subscribed when connect returns
C5_ZeroModelKeys ==
    (ret.op = "connect" /\ ret.sender.type # "str") =>
        /\ Len(ret.models) = 0
        /\ Subscription(ret, ret.sender) \in receivers

\* C5 amended: with the sender omitted the call is made with zero model keys;
\* with a model class as sender it is made with one, the key of that class; in
\* both cases, the class being registered, the receiver is subscribed when
\* connect returns and no operation is added to the pending operations
C5_SubscribedImmediately ==
    [][ ret'.op = "connect" =>
          /\ ret'.sender = None
             => /\ ret'.models = <<>>
                /\ receivers' = receivers \cup {Subscription(ret', None)}
                /\ pending' = pending
          /\ ret'.sender.type = "model"
             => /\ ret'.models = <<KeyOfClass(ret'.sender)>>
                /\ KeyOfClass(ret'.sender) \in all_models[ret'.sender._meta.apps]
                   => /\ receivers' = receivers \cup {Subscription(ret', ret'.sender)}
                      /\ pending' = pending
      ]_vars

\* connect(OnPostInit(), sender=User, weak=False, dispatch_uid="uid") returned,
\* User being registered: the receiver is subscribed and nothing is pending
C5_Witness ==
    /\ ret.op = "connect"
    /\ ret.sender = User
    /\ ~ret.weak
    /\ user_key \in all_models["apps"]
    /\ Subscription(ret, User) \in receivers
    /\ PendingCount(pending) = 0

\* "The '<name>' function" or "An instance of the '<class name>' class"
Description(receiver) ==
    IF receiver.type = "function"
    THEN s_The_quote \o receiver["__name__"] \o s_quote_function
    ELSE s_An_instance_of_the \o receiver["__class__"]["__name__"] \o s_quote_class

\* the declared name of a signal of models.signals, 'unknown' for another
SignalName(signal) == IF signal = post_init THEN s_post_init ELSE s_unknown

\* the diagnostic of a connection that is still pending under a model key
ConnectionError(k, o) ==
    [type |-> "Error",
     msg |-> Description(o.func.args[1]) \o s_was_connected_to_the
             \o SignalName(o.func.func["__self__"]) \o s_signal_with_a_lazy_reference
             \o k[1] \o <<".">> \o k[2] \o s_sender_not_installed,
     hint |-> None,
     obj |-> Str(o.func.args[1]["__module__"]),
     id |-> Str(s_signals_E001)]

\* C8: after receivers are connected with string senders naming models that
\* are not installed, the check returns one signals.E001 diagnostic for each
\* such connection, with the message built from the description of the
\* receiver, the name of the signal ('unknown' for a signal models.signals does
\* not define) and the model key, and the module of the receiver as obj
C8_SignalDiagnostics ==
    Returned =>
        LET Expected(s) == ConnectionError(s[1], Operations[s[1]][s[2]])
        IN  /\ Len(Errors) = Cardinality(Reported)
            /\ \A s \in Reported :
                   Cardinality({i \in DOMAIN Errors : Errors[i] = Expected(s)})
                       = Cardinality({t \in Reported : Expected(t) = Expected(s)})

\* test_model_signal: on_post_init and OnPostInit() connected to post_init with
\* sender 'missing-app.Model'; the check returns the two expected errors
C8_Witness ==
    /\ Returned
    /\ Len(Errors) = 2
    /\ Errors[1].msg = expected_instance_msg
    /\ Errors[2].msg = expected_function_msg
    /\ \A i \in 1..2 : Errors[i].id = Str(s_signals_E001) /\ Errors[i].obj = Str(s_tests_module)

(***************************************************************************)
(* C10: extract_operation, under SpecExtract                               *)
(***************************************************************************)

\* C10: for every chain of wrappers extract_operation terminates and returns
\* the innermost callable, the positional arguments of the wrappers in the
\* order they are visited and their keyword arguments, a wrapper visited later
\* overriding an earlier one
C10_ExtractReturnsInnermost ==
    frame.pc \in {"returned", "raised"} =>
        /\ frame.pc = "returned"
        /\ frame.operation = Innermost(frame.obj)
        /\ frame.args = AllArgs(Layers(frame.obj))
        /\ frame.keywords = AllKeywords(Layers(frame.obj))

\* the same, for the chains in which the keywords attribute of every partial is a dict
C10_ReturnsInnermostOfDictChains ==
    (/\ frame.pc \in {"returned", "raised"}
     /\ \A i \in DOMAIN Layers(frame.obj) :
            "keywords" \in DOMAIN Layers(frame.obj)[i] => Layers(frame.obj)[i].keywords # None)
    => /\ frame.pc = "returned"
       /\ frame.operation = Innermost(frame.obj)
       /\ frame.args = AllArgs(Layers(frame.obj))
       /\ frame.keywords = AllKeywords(Layers(frame.obj))

====
